---- MODULE Spec2Model ----
(***************************************************************************)
(* A model of the TypeScript lessons of this repository.  A lesson is an   *)
(* ordered sequence of snippets and exercises; a reader opens a lesson,    *)
(* walks its items in document order and runs the code of the item it is   *)
(* on.  The functions the snippets define are operators over JavaScript    *)
(* runtime values; the static types the compiler assigns are finite sets   *)
(* of basic type names (a union is a set union, "assignable" is subset).   *)
(*                                                                         *)
(* Numbers are the integers and NaN (no fractions, no Infinity); strings   *)
(* are TLA+ strings.  Number(s) understands blanks, a sign and decimal     *)
(* digits, which is all the alphabet below can spell.                      *)
(***************************************************************************)
EXTENDS Integers, Sequences, FiniteSets, TLC

(* ------------------------------ bounds --------------------------------- *)
MaxLen == 2        \* longest generated string argument
MaxNum == 6        \* largest magnitude of a generated number argument
MaxThings == 2     \* longest generated array of things
MaxAge == 2        \* largest generated age and limit

(* ------------------------- JavaScript values --------------------------- *)
Undefined == [t |-> "undefined"]
Num(k) == [t |-> "number", n |-> k, nan |-> FALSE]
NaN == [t |-> "number", n |-> 0, nan |-> TRUE]
Str(s) == [t |-> "string", s |-> s]
Bool(b) == [t |-> "boolean", b |-> b]
Obj(r) == [t |-> "object", o |-> r]

\* the JavaScript typeof operator (value world)
TypeOf(v) == v.t

Alphabet == {"6", "-", "a", " "}

RECURSIVE StrsOf(_)
StrsOf(n) == IF n = 0 THEN {""}
             ELSE StrsOf(n - 1) \cup {s \o c : s \in StrsOf(n - 1), c \in Alphabet}

\* the string literals the lessons pass to the functions modelled here
LessonStrings == {"cat", "dog", "6", "oh no", "Amir", "a string", "undefined"}
Strings == StrsOf(MaxLen) \cup LessonStrings

LessonNumbers == {5, 1, 36}
Numbers == (-MaxNum .. MaxNum) \cup LessonNumbers

StringValues == {Str(s) : s \in Strings}
NumberValues == {Num(k) : k \in Numbers} \cup {NaN}

(* -------------------- Number(string) and toString ---------------------- *)
DigitChars == <<"0", "1", "2", "3", "4", "5", "6", "7", "8", "9">>
IsDigit(c) == \E i \in 1..10 : DigitChars[i] = c
DigitVal(c) == (CHOOSE i \in 1..10 : DigitChars[i] = c) - 1

RECURSIVE TrimLeft(_)
TrimLeft(s) == IF Len(s) > 0 /\ Head(s) = " " THEN TrimLeft(Tail(s)) ELSE s

RECURSIVE TrimRight(_)
TrimRight(s) == IF Len(s) > 0 /\ SubSeq(s, Len(s), Len(s)) = " "
                THEN TrimRight(SubSeq(s, 1, Len(s) - 1)) ELSE s

RECURSIVE AllDigits(_)
AllDigits(s) == Len(s) = 0 \/ (IsDigit(Head(s)) /\ AllDigits(Tail(s)))

RECURSIVE DigitsVal(_, _)
DigitsVal(s, acc) == IF Len(s) = 0 THEN acc
                     ELSE DigitsVal(Tail(s), acc * 10 + DigitVal(Head(s)))

\* Number(s) for a string s
StrToNum(s) ==
  LET t == TrimRight(TrimLeft(s))
      signed == Len(t) > 0 /\ Head(t) \in {"+", "-"}
      body == IF signed THEN Tail(t) ELSE t
  IN IF Len(t) = 0 THEN Num(0)
     ELSE IF Len(body) > 0 /\ AllDigits(body)
          THEN Num(IF Head(t) = "-" THEN 0 - DigitsVal(body, 0) ELSE DigitsVal(body, 0))
          ELSE NaN

RECURSIVE NatToStr(_)
NatToStr(k) == IF k < 10 THEN DigitChars[k + 1]
               ELSE NatToStr(k \div 10) \o DigitChars[(k % 10) + 1]

\* n.toString() for a number n
NumToStr(v) == IF v.nan THEN "NaN"
               ELSE IF v.n < 0 THEN "-" \o NatToStr(0 - v.n) ELSE NatToStr(v.n)

\* n * k for a number n
Times(v, k) == IF v.nan THEN NaN ELSE Num(v.n * k)

(* ---------------------------- static types ---------------------------- *)
\* a static type is the set of the basic types it unites; never is {}
\* mutant: every assignment is accepted, as if the variable were of type any
Assignable_Anything(from, to) == TRUE

Assignable(from, to) == from \subseteq to

\* a function signature: parameter type and return type
Sig(p, r) == [param |-> p, ret |-> r]

\* an overload signature against the implementation signature
OverloadCompatible(o, impl) ==
  /\ Assignable(o.param, impl.param)
  /\ (Assignable(o.ret, impl.ret) \/ Assignable(impl.ret, o.ret))

\* the two checks the compiler makes on an overloaded function: every
\* overload against the implementation signature, and the body's returns
\* against the implementation signature (never against the overloads)
FunctionTypeChecks(overloads, impl, bodyReturns) ==
  /\ \A i \in DOMAIN overloads : OverloadCompatible(overloads[i], impl)
  /\ Assignable(bodyReturns, impl.ret)

\* the static type of a call: the return type of the first overload that
\* takes the argument, of the implementation when there are no overloads
CallType(overloads, impl, argType) ==
  IF overloads = << >> THEN impl.ret
  ELSE LET fit == {i \in DOMAIN overloads : Assignable(argType, overloads[i].param)}
       IN IF fit = {} THEN {"error"}
          ELSE overloads[CHOOSE i \in fit : \A j \in fit : i <= j].ret

\* a type predicate narrows its argument to the asserted type where it
\* returned true
PredicateNarrow(argType, asserted) == argType \cap asserted

(* ---------------------- 10-function-overloads -------------------------- *)
\* mutant: the string branch forgets toString
double_NoToString(n) == IF TypeOf(n) = "number" THEN Times(n, 2)
                        ELSE Times(StrToNum(n.s), 2)

double(n) == IF TypeOf(n) = "number" THEN Times(n, 2)
             ELSE LET doubled == Times(StrToNum(n.s), 2)
                  IN Str(NumToStr(doubled))

DoubleOverloads == << Sig({"number"}, {"number"}), Sig({"string"}, {"string"}) >>
DoubleImpl == Sig({"number", "string"}, {"number", "string"})
DoubleBodyReturns == {"number"} \cup {"string"}

\* mutant: the string branch calls toString after all
doubleNoToString_Fixed(n) == IF TypeOf(n) = "number" THEN Times(n, 2)
                             ELSE Str(NumToStr(Times(StrToNum(n.s), 2)))

\* the variant whose else branch no longer calls toString
doubleNoToString(n) == IF TypeOf(n) = "number" THEN Times(n, 2)
                       ELSE LET doubled == Times(StrToNum(n.s), 2)
                            IN doubled

DoubleNoToStringBodyReturns == {"number"} \cup {"number"}

\* mutant: no check for undefined, so undefined + 's' is 'undefineds'
pluralize_NoUndefinedCheck(s) ==
  IF s = Undefined THEN Str("undefined" \o "s") ELSE Str(s.s \o "s")

pluralize(s) == IF s = Undefined THEN Undefined ELSE Str(s.s \o "s")

(* ------------------------ generic constraints -------------------------- *)
\* a < b on numbers: false when either side is NaN
Less(a, b) == ~a.nan /\ ~b.nan /\ a.n < b.n

\* mutant: <= in place of <
filterBelowAge_Inclusive(things, limit) ==
  SelectSeq(things, LAMBDA thing :
              Less(thing.o.age, limit) \/ thing.o.age = limit)

filterBelowAge(things, limit) ==
  SelectSeq(things, LAMBDA thing : Less(thing.o.age, limit))

\* things.map(thing => thing.name)
MapName(things) == [i \in 1 .. Len(things) |-> things[i].o.name]

User(n, a, c) == Obj([name |-> Str(n), age |-> Num(a), country |-> Str(c)])
Cat(n, a, v) == Obj([name |-> Str(n), age |-> Num(a), vaccinated |-> Bool(v)])

allUsers == << User("Amir", 36, "France"), User("Gabriel", 7, "France") >>
allCats == << Cat("Ms. Fluff", 4, TRUE), Cat("Wilford", 17, TRUE) >>

\* objects with an age: the lesson's users and cats, and generated ones
Things == {allUsers[1], allUsers[2], allCats[1], allCats[2]}
            \cup {Obj([name |-> Str("a"), age |-> Num(a)]) : a \in 0 .. MaxAge}
            \cup {Obj([name |-> Str("a"), age |-> NaN])}

Limits == {Num(10)} \cup {Num(a) : a \in 0 .. MaxAge + 1}

RECURSIVE SeqsOf(_, _)
SeqsOf(S, n) == IF n = 0 THEN {<< >>}
                ELSE SeqsOf(S, n - 1)
                       \cup {Append(q, x) : q \in SeqsOf(S, n - 1), x \in S}

ThingArrays == SeqsOf(Things, MaxThings)

(* ------------------------ type predicates (1) ------------------------- *)
\* mutant: compares with null, which undefined is not strictly equal to
isAddressBoolean_NotNull(address) == Bool(address # [t |-> "null"])

\* isAddress with return type boolean
isAddressBoolean(address) == Bool(address # Undefined)

\* mutant: the comparison inverted
isAddress_Inverted(address) == Bool(address = Undefined)

\* isAddress with return type "address is Address"
isAddress(address) == Bool(address # Undefined)

isAlbum(maybeAlbum) == Bool(maybeAlbum # Undefined)

Address(p, c) == Obj([postalCode |-> Str(p), country |-> Str(c)])
Album(n, k) == Obj([name |-> Str(n), copiesSold |-> Num(k)])

DefaultAddress == Address("unknown", "unknown")
DefaultAlbum == Album("unknown", 0)

Addresses == {Address(p, c) : p \in {"75010", "unknown"}, c \in {"France", "unknown"}}
Albums == {Album(n, k) : n \in {"The Dark Side of the Moon", "unknown"},
                         k \in {24400000, 0}}

(* ------------------------ type predicates (2) ------------------------- *)
\* mutant: the predicate written correctly
isNumberBuggy_Correct(n) == Bool(TypeOf(n) = "number")

\* the intentionally wrong predicate
isNumberBuggy(n) == Bool(TypeOf(n) = "string")

\* mutant: accepts everything that is not undefined
isString_NotUndefined(s) == Bool(TypeOf(s) # "undefined")

isString(s) == Bool(TypeOf(s) = "string")

\* the static type unknown: every basic type
Unknown == {"number", "string", "undefined", "boolean", "object"}

\* values of every kind, for an argument of type unknown
Values == StringValues \cup NumberValues
            \cup {Undefined, Bool(TRUE), Bool(FALSE), Obj([name |-> Str("Betty")])}

(* ----------------------------- exercises ------------------------------ *)
getAppointmentSpecies(appointment) == appointment.o.animal.o.species

\* mutant: the body of double copied unchanged
quadruple_Double(n) == Times(n, 2)

quadruple(n) == Times(n, 4)

appointment == Obj([animal |-> Obj([species |-> Str("felis catus"),
                                    name |-> Str("Ms. Fluff")])])
album == Album("A Love Supreme", 500000)
artist == Obj([name |-> Str("Pink Floyd"),
               topSellingAlbum |-> Album("The Dark Side of the Moon", 24400000)])
s1 == Undefined

\* the value the code of the exercise of lesson l evaluates to
ExerciseCode(l) ==
  CASE l = "overloads" ->
         << pluralize(Str("cat")), pluralize(Str("dog")), pluralize(Undefined) >>
    [] l = "indexing" -> << album.o.name, album.o.copiesSold >>
    [] l = "constraints" -> getAppointmentSpecies(appointment)
    [] l = "typeof" -> << quadruple(Num(3)), quadruple(Num(7)) >>
    [] l = "predicates" ->
         IF isAlbum(artist.o.topSellingAlbum).b
         THEN artist.o.topSellingAlbum ELSE DefaultAlbum
    [] l = "predicates2" -> IF isString(s1).b THEN s1 ELSE Str("not a string")

\* the output printed after "Goal:" in the exercise of each lesson
Goal ==
  [overloads |-> << Str("cats"), Str("dogs"), Undefined >>,
   indexing |-> << Str("A Love Supreme"), Num(500000) >>,
   constraints |-> Str("felis catus"),
   typeof |-> << Num(12), Num(28) >>,
   predicates |-> Album("The Dark Side of the Moon", 24400000),
   predicates2 |-> Str("not a string")]

\* the output printed after "Yours:" in the exercise of each lesson
Yours ==
  [overloads |-> << Str("cats"), Str("dogs"), Undefined >>,
   indexing |-> << Str("A Love Supreme"), Num(500000) >>,
   constraints |-> Str("felis catus"),
   typeof |-> << Num(12), Num(28) >>,
   predicates |-> Album("The Dark Side of the Moon", 24400000),
   predicates2 |-> Str("not a string")]

(* ------------------------ narrowing to number -------------------------- *)
\* a typeof guard narrows its operand to the basic type it names
TypeofNarrow(argType, name) == argType \cap {name}

\* mutant: the body tests for the wrong basic type
isNumber_TestsString(maybeNumber) == Bool(TypeOf(maybeNumber) = "string")

isNumber(maybeNumber) == Bool(TypeOf(maybeNumber) = "number")

numberOrUndefined == Num(1)

(* ---------------------------- hybrid types ----------------------------- *)
\* a function value: its body, the variables it closes over, its properties
Fn(body, env, props) == [t |-> "function", body |-> body, env |-> env, props |-> props]

NoProps == [k \in {} |-> Undefined]

\* f.k = v
SetProp(f, k, v) ==
  [f EXCEPT !.props = [x \in DOMAIN f.props \cup {k} |->
                         IF x = k THEN v ELSE f.props[x]]]

\* f.k
GetProp(f, k) == IF k \in DOMAIN f.props THEN f.props[k] ELSE Undefined

\* ${v} in a template literal
Template(v) == IF TypeOf(v) = "string" THEN v.s
               ELSE IF TypeOf(v) = "number" THEN NumToStr(v)
               ELSE IF TypeOf(v) = "boolean" THEN (IF v.b THEN "true" ELSE "false")
               ELSE TypeOf(v)

\* the inner function of buildPath: `/${prefix}/${suffix}`, prefix closed over
path(self, suffix) ==
  Str("/" \o Template(self.env.prefix) \o "/" \o Template(suffix))

\* mutant: the prefix property is never stored
buildPath_PrefixNotStored(prefix) == Fn("path", [prefix |-> prefix], NoProps)

buildPath(prefix) ==
  LET declared == Fn("path", [prefix |-> prefix], NoProps)
      assigned == SetProp(declared, "prefix", prefix)
  IN assigned

\* mutant: the template lacks the leading slash
coursePath_NoLeadingSlash(heap, self, suffix) ==
  Str(Template(GetProp(heap[self.env.coursePath], "prefix")) \o "/" \o Template(suffix))

\* `/${coursePath.prefix}/${suffix}`: the property is read, through the
\* variable coursePath, when the function is called
coursePath(heap, self, suffix) ==
  Str("/" \o Template(GetProp(heap[self.env.coursePath], "prefix"))
          \o "/" \o Template(suffix))

\* the coursePath snippet: the function is declared, its prefix assigned,
\* coursePath2 bound to it, and [coursePath2.prefix, coursePath2(suffix)]
\* evaluated; variables hold references into the heap
CoursePathSnippet(prefix, suffix) ==
  LET ref == 1
      heap0 == << Fn("coursePath", [coursePath |-> ref], NoProps) >>
      heap1 == [heap0 EXCEPT ![ref] = SetProp(heap0[ref], "prefix", prefix)]
      coursePath2 == ref
  IN [heap |-> heap1, coursePath |-> ref, coursePath2 |-> coursePath2,
      out |-> << GetProp(heap1[coursePath2], "prefix"),
                 coursePath(heap1, heap1[coursePath2], suffix) >>]

\* prefixes and suffixes: the lessons' own and the generated strings
PathStrings == {Str(s) : s \in StrsOf(MaxLen)
                           \cup {"courses", "users", "regexes", "amir", "typescript"}}

(* -------------------------------- keyof -------------------------------- *)
getUserProperty(user, key) == user.o[key]

\* mutant: the property read is fixed to name
getProperty_AlwaysName(obj, propertyName) ==
  IF "name" \in DOMAIN obj.o THEN obj.o.name ELSE Undefined

getProperty(obj, propertyName) == obj.o[propertyName]

\* values of type User = {name: string, age: number}
KeyofUsers == {Obj([name |-> Str(n), age |-> Num(a)]) :
                 n \in {"Amir", "Betty"}, a \in {36} \cup (0 .. MaxAge)}

\* arguments of the generic getProperty
KeyofObjects == KeyofUsers \cup {Obj([name |-> Str("Amir"), hello |-> Str("world")]),
                                 Obj([age |-> Num(36)])}

(* --------------------------- declarations ----------------------------- *)
\* the order in which the compiler prints the members of a union
BasicOrder == << "string", "number", "boolean", "undefined", "object" >>

RECURSIVE JoinNames(_, _)
JoinNames(T, i) ==
  IF i > Len(BasicOrder) THEN ""
  ELSE LET rest == JoinNames(T, i + 1)
       IN IF BasicOrder[i] \notin T THEN rest
          ELSE IF rest = "" THEN BasicOrder[i]
          ELSE BasicOrder[i] \o " | " \o rest

\* the text the compiler prints for a type
TypeName(T) == IF T = {} THEN "never"
               ELSE IF Cardinality(T) = 1 THEN CHOOSE n \in T : TRUE
               ELSE JoinNames(T, 1)

\* the diagnostic for an assignment whose types do not match
NotAssignable(from, toName) ==
  "Type '" \o TypeName(from) \o "' is not assignable to type '" \o toName \o "'."

\* const x: T = e, where e has static type exprType and evaluates to v:
\* the compiler rejects the snippet with a diagnostic, or the snippet
\* runs and x holds v; written records whether e is the lesson's own
Declare(fn, v, exprType, T, toName, written) ==
  IF Assignable(exprType, T)
  THEN [fn |-> fn, arg |-> v, declared |-> T, asWritten |-> written,
        error |-> "none", value |-> v]
  ELSE [fn |-> fn, arg |-> v, declared |-> T, asWritten |-> written,
        error |-> NotAssignable(exprType, toName)]

(* -------------------- indexing types with union types ------------------ *)
\* type User = {name: string, age: number}
UserType == [name |-> {"string"}, age |-> {"number"}]

\* mutant: indexing by a union looks at one of the keys only
IndexType_OneKey(T, keys) == T[CHOOSE k \in keys : TRUE]

\* T[K] for a union K of keys of the object type T
IndexType(T, keys) == UNION {T[k] : k \in keys}

\* typeof of a const variable holding an object: the inferred object type
TypeofValue(v) == [k \in DOMAIN v.o |-> {TypeOf(v.o[k])}]

user == Obj([name |-> Str("Amir"), age |-> Num(36)])

NameOrAgeKeys == {"name", "age"}

\* the type NameOrAge in force at the snippet starting at the given line
NameOrAgeAt(line) ==
  IF line = 53 THEN IndexType(UserType, NameOrAgeKeys)
  ELSE IF line = 76 THEN IndexType(TypeofValue(user), {"name", "age"})
  ELSE IndexType(UserType, {"name", "age"})

\* the value each snippet assigns to nameOrAge
NameOrAgeValue == (20 :> Str("Amir")) @@ (31 :> Num(36)) @@ (42 :> Undefined)
                    @@ (53 :> Undefined) @@ (76 :> Str("Betty"))

PropertyTypes1 == IndexType(UserType, {"name", "age"})
PropertyTypes2 == IndexType(UserType, {"name"}) \cup IndexType(UserType, {"age"})

(* ----------------------------- basic types ---------------------------- *)
\* a + b
Plus(a, b) ==
  IF TypeOf(a) = "number" /\ TypeOf(b) = "number"
  THEN (IF a.nan \/ b.nan THEN NaN ELSE Num(a.n + b.n))
  ELSE Str(Template(a) \o Template(b))

\* a || b on booleans
Or(a, b) == IF a.b THEN a ELSE b

Expr(op, l, r) == [op |-> op, l |-> l, r |-> r]

\* the value of a binary expression
Eval(x) == IF x.op = "+" THEN Plus(x.l, x.r) ELSE Or(x.l, x.r)

\* the static type of a binary expression from its operands' types
ExprType(x) ==
  IF x.op = "||" THEN {TypeOf(x.l)} \cup {TypeOf(x.r)}
  ELSE IF TypeOf(x.l) = "number" /\ TypeOf(x.r) = "number" THEN {"number"}
  ELSE {"string"}

\* the declaration each snippet of the lesson makes (the last one through
\* the variable n, declared number and holding 1 + 1)
BasicSnippets ==
  (15 :> [declared |-> {"number"}, expr |-> Expr("+", Num(1), Num(1))])
  @@ (24 :> [declared |-> {"string"}, expr |-> Expr("+", Str("any"), Str("thing"))])
  @@ (39 :> [declared |-> {"number"}, expr |-> Expr("+", Str("any"), Str("thing"))])
  @@ (52 :> [declared |-> {"boolean"}, expr |-> Expr("||", Bool(TRUE), Bool(FALSE))])
  @@ (61 :> [declared |-> {"boolean"}, expr |-> Expr("+", Num(1), Num(1))])
  @@ (72 :> [declared |-> {"number"}, expr |-> Expr("+", Num(1), Num(1))])
  @@ (81 :> [declared |-> {"string"}, expr |-> Expr("+", Num(1), Num(1))])

BasicDeclared == {{"number"}, {"string"}, {"boolean"}}

BasicExprs ==
  {Expr("+", l, r) : l, r \in {Num(k) : k \in 0 .. MaxAge} \cup {Num(1)}}
    \cup {Expr("+", l, r) : l, r \in {Str("any"), Str("thing"), Str("")}}
    \cup {Expr("||", l, r) : l, r \in {Bool(TRUE), Bool(FALSE)}}

(* ---------------- generic constraints: the type checks ----------------- *)
\* the object types the lesson passes to filterBelowAge, and one whose age
\* is not a number
NamedTypes ==
  [User |-> [name |-> {"string"}, age |-> {"number"}, country |-> {"string"}],
   Cat |-> [name |-> {"string"}, age |-> {"number"}, vaccinated |-> {"boolean"}],
   Album |-> [name |-> {"string"}, copiesSold |-> {"number"}],
   Label |-> [name |-> {"string"}, age |-> {"string"}]]

\* <T>: no constraint
NoConstraint == [k \in {} |-> {}]

\* <T extends {age: number}>
AgeConstraint == [age |-> {"number"}]

\* mutant: the constraint is not checked at the call
Satisfies_Unchecked(T, C) == TRUE

\* T is compatible with the constraint C
Satisfies(T, C) ==
  \A k \in DOMAIN C : k \in DOMAIN T /\ Assignable(T[k], C[k])

RECURSIVE ShapeMembers(_, _)
ShapeMembers(C, keys) ==
  IF keys = {} THEN ""
  ELSE LET k == CHOOSE x \in keys : TRUE
       IN k \o ": " \o TypeName(C[k]) \o "; " \o ShapeMembers(C, keys \ {k})

\* the text the compiler prints for an object type literal
ShapeName(C) == "{ " \o ShapeMembers(C, DOMAIN C) \o "}"

\* type checking of the call filterBelowAge(things, limit), things: Array<T>
CheckCall(elem, C) ==
  IF Satisfies(NamedTypes[elem], C) THEN "none"
  ELSE "Argument of type '" \o elem \o "[]' is not assignable to parameter of type '"
         \o ShapeName(C) \o "[]'."

\* type checking of thing.prop inside the body, where thing: T
CheckAccess(C, prop) ==
  IF prop \in DOMAIN C THEN "none"
  ELSE "Property '" \o prop \o "' does not exist on type 'T'."

\* the constraint and the property accessed in each definition of
\* filterBelowAge<T>
FilterBodies ==
  (65 :> [constraint |-> NoConstraint, prop |-> "age"])
  @@ (75 :> [constraint |-> AgeConstraint, prop |-> "age"])
  @@ (110 :> [constraint |-> AgeConstraint, prop |-> "name"])

\* the element type each call of the constrained filterBelowAge passes
FilterCalls == (84 :> "User") @@ (95 :> "Cat") @@ (125 :> "Album")

(* ----------------------------- mapped types ---------------------------- *)
\* an array value; typeof an array is 'object'
Arr(q) == [t |-> "object", a |-> q]

IsArr(v) == "a" \in DOMAIN v

\* Array<T>, printed T[]
ArrayOf(T) ==
  {(IF Cardinality(T) > 1 THEN "(" \o TypeName(T) \o ")" ELSE TypeName(T)) \o "[]"}

IsArrayName(n) == Len(n) > 2 /\ SubSeq(n, Len(n) - 1, Len(n)) = "[]"

ElemName(n) == SubSeq(n, 1, Len(n) - 2)

\* the static type of a literal: a primitive's basic type, or for an array
\* literal the array of the union of its elements' types
RECURSIVE StaticType(_)
StaticType(v) ==
  IF IsArr(v) THEN ArrayOf(UNION {StaticType(v.a[i]) : i \in 1..Len(v.a)})
  ELSE {TypeOf(v)}

RECURSIVE NameAssignable(_, _)
NameAssignable(a, b) ==
  \/ a = b
  \/ a = "never"
  \/ /\ IsArrayName(a) /\ IsArrayName(b)
     /\ NameAssignable(ElemName(a), ElemName(b))

\* assignability of types that may be array types
AssignableTo(from, to) == \A a \in from : \E b \in to : NameAssignable(a, b)

\* the properties of User in the order the lesson adds them
UserKeys == << "email", "age", "catNames" >>

UserKeyTypes == [email |-> {"string"}, age |-> {"number"}, catNames |-> {"string[]"}]

\* type User with the first n properties
UserOf(n) == [K \in {UserKeys[i] : i \in 1..n} |-> UserKeyTypes[K]]

\* {[K in keyof User]: Array<string>}
StringAggregate(U) == [K \in DOMAIN U |-> ArrayOf({"string"})]

\* mutant: the property types are not wrapped in Array<...>
MappedType_NotWrapped(U) == [K \in DOMAIN U |-> IndexType(U, {K})]

\* {[K in keyof User]: Array<User[K]>}
MappedType(U) == [K \in DOMAIN U |-> ArrayOf(IndexType(U, {K}))]

\* the type UserAggregate in force at the snippet starting at the given line
UserAggregateAt(line, U) ==
  IF line \in {23, 52} THEN StringAggregate(U) ELSE MappedType(U)

\* the first property of the object literal whose type does not fit, 0 if none
RECURSIVE FirstMismatch(_, _, _)
FirstMismatch(o, M, i) ==
  IF i > Len(UserKeys) \/ UserKeys[i] \notin DOMAIN M THEN 0
  ELSE IF ~AssignableTo(StaticType(o[UserKeys[i]]), M[UserKeys[i]]) THEN i
  ELSE FirstMismatch(o, M, i + 1)

\* const userAggregate: UserAggregate = {...}
DeclareAggregate(line, U, o, written) ==
  LET M == UserAggregateAt(line, U)
      i == FirstMismatch(o, M, 1)
      base == [fn |-> "userAggregate", line |-> line, user |-> U, mapped |-> M,
               arg |-> Obj(o), asWritten |-> written]
  IN IF i = 0 THEN base @@ [error |-> "none", value |-> Obj(o)]
     ELSE base @@ [error |-> NotAssignable(StaticType(o[UserKeys[i]]),
                                           TypeName(M[UserKeys[i]]))]

amir == Str("amir@example.com")

\* the number of properties of User and the object literal in each snippet
Aggregates ==
  (23 :> [n |-> 1, o |-> [email |-> Arr(<<amir>>)]])
  @@ (52 :> [n |-> 2, o |-> [email |-> Arr(<<amir>>), age |-> Arr(<<Str("36")>>)]])
  @@ (77 :> [n |-> 2, o |-> [email |-> Arr(<<amir>>), age |-> Arr(<<Num(36)>>)]])
  @@ (98 :> [n |-> 2, o |-> [email |-> amir, age |-> Num(36)]])

\* property values to try in place of the lesson's
PropValues ==
  {amir, Num(36), Str("36"), Arr(<< >>), Arr(<<amir>>), Arr(<<Num(36)>>),
   Arr(<<Str("36")>>), Arr(<<Arr(<<Str("a")>>)>>), Arr(<<Num(36), amir>>)}

(* ------------------ names across the snippets of a lesson -------------- *)
\* the names each item of each lesson declares (function, const, let, type,
\* interface), item by item in document order
Defs ==
  [overloads |->
     << {"double"},
     {},
     {"n"},
     {"n"},
     {"double"},
     {"n"},
     {"s"},
     {"double"},
     {"double", "s"},
     {"pluralize", "cats", "dogs", "anUndefined"} >>,
   indexing |->
     << {"User", "NameOrAge"},
     {"nameOrAge"},
     {"nameOrAge"},
     {"nameOrAge"},
     {"User", "NameOrAgeKeys", "NameOrAge", "nameOrAge"},
     {"user", "NameOrAge", "nameOrAge"},
     {"album", "NameOrCopiesSold", "name", "copiesSold"},
     {},
     {"User", "PropertyTypes1", "PropertyTypes2"} >>,
   keyof |->
     << {"User", "getUserProperty"},
     {},
     {},
     {"getProperty", "name", "age"} >>,
   constraints |->
     << {"User", "filterBelowAge", "users", "youngUsers"},
     {"User", "Cat", "filterBelowAge", "peopleAndCats", "youngOnly"},
     {"users", "youngOnly"},
     {"filterBelowAge"},
     {"filterBelowAge"},
     {"User", "allUsers", "youngUsers"},
     {"Cat", "allCats", "youngCats"},
     {"filterBelowAge"},
     {"filterBelowAge", "Album", "allAlbums"},
     {"Animal", "Appointment", "getAppointmentSpecies", "appointment", "species"},
     {"double"},
     {"Path", "coursePath", "coursePath2"},
     {"Path", "buildPath"},
     {"path"},
     {"path"} >>,
   typeof |->
     << {"one", "two"},
     {"one", "OurType", "two"},
     {"one", "OurType", "aString"},
     {"numbers", "OurVariableType", "moreNumbers"},
     {"double", "OurFunctionType", "quadruple"},
     {"double", "OurFunctionType", "add"},
     {"double", "OurReturnType", "n"},
     {"double", "OurReturnType", "add"},
     {"double", "OurReturnType", "add"},
     {"one", "two"},
     {"one", "two"},
     {"double", "quadruple"},
     {"string", "amir"},
     {"User", "amir"},
     {"doubleIfNumber"} >>,
   basic |->
     << {"sum"},
     {"anything"},
     {"sum"},
     {"b"},
     {"b"},
     {"n"},
     {"n", "s"} >>,
   never |->
     << {"name1", "name2"},
     {"returnNumberOrNever", "n"} >>,
   mapped |->
     << {},
     {"User", "UserAggregate", "userAggregate"},
     {"User", "UserAggregate", "userAggregate"},
     {"User", "UserAggregate", "userAggregate"},
     {"User", "UserAggregate", "userAggregate"} >>,
   predicates |->
     << {"User", "amir", "age"},
     {"User", "amir", "age"},
     {"Address", "User", "isAddress"},
     {"Address", "User", "isAddress", "amir", "address"},
     {"Address", "User", "isAddress", "amir", "address"},
     {"Address", "isAddress"},
     {"Album", "Artist", "isAlbum", "artist", "album"} >>,
   predicates2 |->
     << {"isNumber"},
     {"numberOrUndefined", "n", "n2"},
     {"isNumber", "n", "n2"},
     {"isString", "s1", "s2"},
     {"isString"},
     {},
     {},
     {"s", "s2"},
     {"s", "s2"} >>]

\* the names each item uses without declaring them itself, built-ins aside
Uses ==
  [overloads |->
     << {},
     {"double"},
     {"double"},
     {"double"},
     {},
     {"double"},
     {"double"},
     {},
     {},
     {} >>,
   indexing |->
     << {},
     {"NameOrAge"},
     {"NameOrAge"},
     {"NameOrAge"},
     {},
     {},
     {},
     {},
     {} >>,
   keyof |->
     << {},
     {"getUserProperty"},
     {"getUserProperty"},
     {} >>,
   constraints |->
     << {},
     {},
     {"User", "filterBelowAge"},
     {},
     {},
     {"filterBelowAge"},
     {"filterBelowAge"},
     {},
     {},
     {},
     {},
     {},
     {},
     {"Path", "buildPath"},
     {"Path", "buildPath"} >>,
   typeof |->
     << {},
     {},
     {},
     {},
     {},
     {},
     {},
     {},
     {},
     {},
     {},
     {},
     {},
     {},
     {} >>,
   basic |->
     << {},
     {},
     {},
     {},
     {},
     {},
     {} >>,
   never |->
     << {},
     {} >>,
   mapped |->
     << {},
     {},
     {},
     {},
     {} >>,
   predicates |->
     << {},
     {},
     {},
     {},
     {},
     {},
     {} >>,
   predicates2 |->
     << {},
     {"isNumber"},
     {},
     {},
     {},
     {"isString"},
     {"isString"},
     {"isString"},
     {"isString"} >>]

\* the items of lesson l that declare the name
DefinedAt(l, name) == {i \in 1..Len(Defs[l]) : name \in Defs[l][i]}

\* mutant: the first declaration of a name stays in force
Extend_KeepsFirst(env, l, i) ==
  [n \in DOMAIN env \cup Defs[l][i] |-> IF n \in DOMAIN env THEN env[n] ELSE i]

\* the declarations in force after item i of lesson l has run: its own
\* replace earlier ones of the same name
Extend(env, l, i) ==
  [n \in DOMAIN env \cup Defs[l][i] |-> IF n \in Defs[l][i] THEN i ELSE env[n]]

\* the outcome of a snippet the compiler rejects
TypeError == [t |-> "typeerror"]

\* the declarations of double in the overloads lesson, by item
DoubleDefs ==
  (1 :> [overloads |-> << >>, impl |-> DoubleImpl,
         body |-> DoubleBodyReturns, toString |-> TRUE])
  @@ (5 :> [overloads |-> DoubleOverloads, impl |-> DoubleImpl,
            body |-> DoubleBodyReturns, toString |-> TRUE])
  @@ (8 :> [overloads |-> DoubleOverloads,
            impl |-> Sig({"number", "string"}, {"number"}),
            body |-> DoubleBodyReturns, toString |-> TRUE])
  @@ (9 :> [overloads |-> DoubleOverloads, impl |-> DoubleImpl,
            body |-> DoubleNoToStringBodyReturns, toString |-> FALSE])

\* const x: declared = double(v); x, with the given declaration of double
RunDouble(def, v, declared) ==
  IF ~FunctionTypeChecks(def.overloads, def.impl, def.body) THEN TypeError
  ELSE IF ~Assignable(CallType(def.overloads, def.impl, {TypeOf(v)}), declared)
  THEN TypeError
  ELSE IF def.toString THEN double(v) ELSE doubleNoToString(v)

\* const nameOrAge: NameOrAge = v; nameOrAge
RunNameOrAge(line, v) ==
  LET r == Declare("nameOrAge", v, {TypeOf(v)}, NameOrAgeAt(line), "NameOrAge", TRUE)
  IN IF r.error = "none" THEN r.value ELSE TypeError

\* the declarations of filterBelowAge in the constraints lesson, by item:
\* the element types of the parameter, or the constraint on T and the
\* property the body reads
FilterDefs ==
  (1 :> [generic |-> FALSE, elems |-> {[name |-> {"string"}, age |-> {"number"}]}])
  @@ (2 :> [generic |-> FALSE, elems |-> {NamedTypes["User"], NamedTypes["Cat"]}])
  @@ (4 :> ([generic |-> TRUE] @@ FilterBodies[65]))
  @@ (5 :> ([generic |-> TRUE] @@ FilterBodies[75]))
  @@ (8 :> ([generic |-> TRUE] @@ FilterBodies[110]))
  @@ (9 :> ([generic |-> TRUE] @@ FilterBodies[75]))

\* const young: E[] = filterBelowAge(things, 10); young.map(x => x.name),
\* with the given declaration of filterBelowAge and things: E[]
RunFilter(def, things, elem) ==
  LET E == NamedTypes[elem]
      ok == IF def.generic
            THEN /\ CheckAccess(def.constraint, def.prop) = "none"
                 /\ CheckCall(elem, def.constraint) = "none"
            ELSE /\ \E alt \in def.elems : Satisfies(E, alt)
                 /\ \A alt \in def.elems : Satisfies(alt, E)
  IN IF ok THEN MapName(filterBelowAge(things, Num(10))) ELSE TypeError

\* the snippets that run with a declaration of an earlier snippet: the
\* name they reuse and the result the lesson states
Reuse ==
  [overloads |->
     (18 :> [name |-> "double", stated |-> <<Num(10), Str("12")>>])
     @@ (28 :> [name |-> "double", stated |-> TypeError])
     @@ (38 :> [name |-> "double", stated |-> TypeError])
     @@ (67 :> [name |-> "double", stated |-> Num(10)])
     @@ (76 :> [name |-> "double", stated |-> Str("12")]),
   indexing |->
     (20 :> [name |-> "NameOrAge", stated |-> Str("Amir")])
     @@ (31 :> [name |-> "NameOrAge", stated |-> Num(36)])
     @@ (42 :> [name |-> "NameOrAge", stated |-> TypeError]),
   constraints |->
     (84 :> [name |-> "filterBelowAge", stated |-> <<Str("Gabriel")>>])
     @@ (95 :> [name |-> "filterBelowAge", stated |-> <<Str("Ms. Fluff")>>])]

\* the outcome of the snippet of lesson l starting at the given line when
\* the name it reuses is bound to the declaration of item d
RunWith(l, line, d) ==
  IF l = "overloads"
  THEN IF line = 18
       THEN LET a == RunDouble(DoubleDefs[d], Num(5), {"number", "string"})
                b == RunDouble(DoubleDefs[d], Str("6"), {"number", "string"})
            IN IF a = TypeError \/ b = TypeError THEN TypeError ELSE <<a, b>>
       ELSE IF line \in {28, 67} THEN RunDouble(DoubleDefs[d], Num(5), {"number"})
       ELSE RunDouble(DoubleDefs[d], Str("6"), {"string"})
  ELSE IF l = "indexing"
  THEN RunNameOrAge(((1 :> 9) @@ (5 :> 53) @@ (6 :> 76))[d], NameOrAgeValue[line])
  ELSE IF line = 84 THEN RunFilter(FilterDefs[d], allUsers, "User")
       ELSE RunFilter(FilterDefs[d], allCats, "Cat")

(* ------------------------------ lessons -------------------------------- *)
\* an item of a lesson: a snippet or an exercise, the lines it spans, and
\* the kind of text that follows its "Result:" line ("none": no such line)
Item(k, f, l, r) == [kind |-> k, first |-> f, last |-> l, result |-> r]
Snip(f, l, r) == Item("snippet", f, l, r)
Exer(f, l) == Item("exercise", f, l, "none")

Overloads ==
  << Snip(7, 14, "none"), Snip(18, 22, "array"), Snip(28, 34, "typeerror"),
     Snip(38, 44, "typeerror"), Snip(54, 63, "none"), Snip(67, 72, "literal"),
     Snip(76, 81, "literal"), Snip(95, 110, "typeerror"),
     Snip(118, 135, "literal"), Exer(149, 173) >>

Indexing ==
  << Snip(9, 14, "none"), Snip(20, 25, "literal"), Snip(31, 36, "literal"),
     Snip(42, 47, "typeerror"), Snip(53, 66, "typeerror"),
     Snip(76, 88, "literal"), Exer(100, 122), Snip(130, 137, "array"),
     Snip(147, 153, "prose") >>

Keyof ==
  << Snip(1, 12, "literal"), Snip(14, 16, "literal"), Snip(20, 22, "typeerror"),
     Snip(30, 36, "none") >>

Constraints ==
  << Snip(3, 19, "array"), Snip(23, 41, "array"), Snip(47, 55, "typeerror"),
     Snip(65, 69, "typeerror"), Snip(75, 80, "none"), Snip(84, 93, "array"),
     Snip(95, 104, "array"), Snip(110, 117, "typeerror"),
     Snip(125, 142, "typeerror"), Exer(165, 192), Snip(208, 217, "array"),
     Snip(225, 240, "array"), Snip(248, 260, "none"), Snip(264, 269, "array"),
     Snip(273, 278, "array") >>

Typeof ==
  << Snip(7, 13, "literal"), Snip(17, 24, "literal"), Snip(28, 35, "typeerror"),
     Snip(43, 50, "array"), Snip(56, 67, "literal"), Snip(75, 85, "typeerror"),
     Snip(91, 101, "literal"), Snip(107, 117, "literal"),
     Snip(121, 131, "typeerror"), Snip(137, 143, "typeerror"),
     Snip(149, 155, "literal"), Exer(163, 179), Snip(197, 203, "object"),
     Snip(209, 215, "object"), Snip(223, 238, "array") >>

BasicTypes ==
  << Snip(15, 20, "literal"), Snip(24, 29, "literal"), Snip(39, 44, "typeerror"),
     Snip(52, 57, "literal"), Snip(61, 66, "typeerror"), Snip(72, 77, "literal"),
     Snip(81, 87, "typeerror") >>

Never == << Snip(5, 11, "literal"), Snip(15, 24, "literal") >>

Mapped ==
  << Snip(7, 11, "array"), Snip(23, 38, "array"), Snip(52, 69, "object"),
     Snip(77, 94, "object"), Snip(98, 115, "typeerror") >>

Predicates ==
  << Snip(5, 14, "typeerror"), Snip(20, 33, "literal"), Snip(41, 46, "none"),
     Snip(54, 77, "typeerror"), Snip(85, 109, "literal"),
     Snip(121, 129, "literal"), Exer(135, 183) >>

Predicates2 ==
  << Snip(5, 11, "literal"), Snip(17, 32, "literal"), Snip(42, 53, "literal"),
     Exer(61, 79), Snip(91, 93, "none"), Snip(97, 101, "literal"),
     Snip(105, 109, "literal"), Snip(113, 119, "literal"),
     Snip(123, 129, "literal") >>

Lessons == [overloads |-> Overloads, indexing |-> Indexing, keyof |-> Keyof,
            constraints |-> Constraints, typeof |-> Typeof,
            basic |-> BasicTypes, never |-> Never, mapped |-> Mapped,
            predicates |-> Predicates, predicates2 |-> Predicates2]
LessonNames == DOMAIN Lessons

(* ------------------------------- state --------------------------------- *)
VARIABLES lesson,   \* the lesson that is open, "none" before the first
          pos,      \* index of the current item of the lesson
          call,     \* the last evaluation done on the current item
          scope     \* name -> the item whose declaration of it is in force,
                    \* over the items run before the current one

vars == <<lesson, pos, call, scope>>

NoCall == [fn |-> "none"]

\* the reader is on the item of lesson l that starts at the given line and
\* has not run it yet (an item is run once per visit)
At(l, line) == /\ lesson = l
               /\ pos > 0
               /\ Lessons[l][pos].first = line
               /\ call = NoCall

Init == lesson = "none" /\ pos = 0 /\ call = NoCall /\ scope = [n \in {} |-> 0]

OpenLesson(l) == /\ lesson' = l
                 /\ pos' = 1
                 /\ call' = NoCall
                 /\ scope' = [n \in {} |-> 0]

NextItem == /\ lesson # "none"
            /\ pos < Len(Lessons[lesson])
            /\ pos' = pos + 1
            /\ call' = NoCall
            /\ scope' = Extend(scope, lesson, pos)
            /\ UNCHANGED lesson

\* pluralize(s) in the exercise of the overloads lesson
CallPluralize ==
  /\ At("overloads", 149)
  /\ \E s \in StringValues \cup {Undefined} :
       call' = [fn |-> "pluralize", arg |-> s, ret |-> pluralize(s)]
  /\ UNCHANGED <<lesson, pos, scope>>

\* [double(5), double('6')] with the union-typed double, and
\* const n: number = double(5) / const s: string = double('6') with the
\* overloaded one, for any argument in place of 5 and '6'
CallDouble ==
  LET overloads == IF At("overloads", 18) THEN << >> ELSE DoubleOverloads
      declared == IF At("overloads", 67) THEN {"number"}
                  ELSE IF At("overloads", 76) THEN {"string"}
                  ELSE {"number", "string"}
  IN /\ At("overloads", 18) \/ At("overloads", 67) \/ At("overloads", 76)
     /\ FunctionTypeChecks(overloads, DoubleImpl, DoubleBodyReturns)
     /\ \E v \in NumberValues \cup StringValues :
          LET static == CallType(overloads, DoubleImpl, {TypeOf(v)})
          IN /\ Assignable(static, declared)
             /\ call' = [fn |-> "double", arg |-> v, ret |-> double(v),
                         static |-> static, declared |-> declared]
     /\ UNCHANGED <<lesson, pos, scope>>

\* const s: string = double('6') with the variant without toString
CallDoubleNoToString ==
  /\ At("overloads", 118)
  /\ FunctionTypeChecks(DoubleOverloads, DoubleImpl, DoubleNoToStringBodyReturns)
  /\ \E v \in StringValues :
       LET static == CallType(DoubleOverloads, DoubleImpl, {TypeOf(v)})
           declared == {"string"}
       IN /\ Assignable(static, declared)
          /\ call' = [fn |-> "doubleNoToString", arg |-> v,
                      ret |-> doubleNoToString(v),
                      static |-> static, declared |-> declared]
  /\ UNCHANGED <<lesson, pos, scope>>

\* filterBelowAge(allUsers, 10).map(user => user.name), for any array of
\* things with an age and any limit
CallFilterBelowAge ==
  /\ At("constraints", 3) \/ At("constraints", 84) \/ At("constraints", 95)
  /\ \E things \in ThingArrays, limit \in Limits :
       call' = [fn |-> "filterBelowAge", arg |-> things, limit |-> limit,
                ret |-> filterBelowAge(things, limit),
                names |-> MapName(filterBelowAge(things, limit))]
  /\ UNCHANGED <<lesson, pos, scope>>

\* isAddress(address) with the boolean version, where it is defined
CallIsAddressBoolean ==
  /\ At("predicates", 41)
  /\ \E a \in Addresses \cup {Undefined} :
       call' = [fn |-> "isAddressBoolean", arg |-> a, ret |-> isAddressBoolean(a)]
  /\ UNCHANGED <<lesson, pos, scope>>

\* isAddress({postalCode: '75010', country: 'France'}) with the predicate
CallIsAddress ==
  /\ At("predicates", 121)
  /\ \E a \in Addresses \cup {Undefined} :
       call' = [fn |-> "isAddress", arg |-> a, ret |-> isAddress(a)]
  /\ UNCHANGED <<lesson, pos, scope>>

\* if (isAddress(amir.address)) address = amir.address; else address = default
NarrowAddress ==
  LET static == PredicateNarrow({"Address", "undefined"}, {"Address"})
      declared == {"Address"}
  IN /\ At("predicates", 85)
     /\ Assignable(static, declared)
     /\ \E a \in Addresses \cup {Undefined} :
          call' = [fn |-> "isAddress", arg |-> a, ret |-> isAddress(a),
                   value |-> IF isAddress(a).b THEN a ELSE DefaultAddress,
                   static |-> static, declared |-> declared]
     /\ UNCHANGED <<lesson, pos, scope>>

\* if (isAlbum(artist.topSellingAlbum)) album = ...; else album = default
NarrowAlbum ==
  LET static == PredicateNarrow({"Album", "undefined"}, {"Album"})
      declared == {"Album"}
  IN /\ At("predicates", 135)
     /\ Assignable(static, declared)
     /\ \E a \in Albums \cup {Undefined} :
          call' = [fn |-> "isAlbum", arg |-> a, ret |-> isAlbum(a),
                   value |-> IF isAlbum(a).b THEN a ELSE DefaultAlbum,
                   static |-> static, declared |-> declared]
     /\ UNCHANGED <<lesson, pos, scope>>

\* const n2: number = isNumber(n) ? n : 0 with the wrong predicate
CallIsNumberBuggy ==
  /\ At("predicates2", 42)
  /\ \E n \in NumberValues \cup StringValues :
       LET static == PredicateNarrow({TypeOf(n)}, {"number"}) \cup {"number"}
           declared == {"number"}
       IN /\ Assignable(static, declared)
          /\ call' = [fn |-> "isNumberBuggy", arg |-> n, ret |-> isNumberBuggy(n),
                      value |-> IF isNumberBuggy(n).b THEN n ELSE Num(0),
                      static |-> static, declared |-> declared]
  /\ UNCHANGED <<lesson, pos, scope>>

\* isString(1), isString('Amir') with the unknown parameter
CallIsString ==
  /\ At("predicates2", 97) \/ At("predicates2", 105)
  /\ \E s \in Values :
       call' = [fn |-> "isString", arg |-> s, ret |-> isString(s)]
  /\ UNCHANGED <<lesson, pos, scope>>

\* const s2: string = isString(s) ? s : 'not a string', in the exercise
\* (s: string | undefined) and with the unknown parameter
NarrowString ==
  /\ At("predicates2", 61) \/ At("predicates2", 113) \/ At("predicates2", 123)
  /\ \E s \in Values :
       LET argType == IF At("predicates2", 61) THEN {TypeOf(s)} ELSE Unknown
           static == PredicateNarrow(argType, {"string"}) \cup {"string"}
           declared == {"string"}
       IN /\ At("predicates2", 61) => TypeOf(s) \in {"string", "undefined"}
          /\ Assignable(static, declared)
          /\ call' = [fn |-> "isString", arg |-> s, ret |-> isString(s),
                      value |-> IF isString(s).b THEN s ELSE Str("not a string"),
                      static |-> static, declared |-> declared]
  /\ UNCHANGED <<lesson, pos, scope>>

\* run the submitted code of the exercise the reader is on
RunExercise ==
  /\ lesson # "none" /\ pos > 0 /\ call = NoCall
  /\ Lessons[lesson][pos].kind = "exercise"
  /\ call' = [fn |-> "exercise", out |-> ExerciseCode(lesson),
              goal |-> Goal[lesson], yours |-> Yours[lesson]]
  /\ UNCHANGED <<lesson, pos, scope>>

\* if (typeof amir.age === 'number') age = amir.age; else age = 0
NarrowAge ==
  LET static == TypeofNarrow({"number", "undefined"}, "number") \cup {"number"}
      declared == {"number"}
  IN /\ At("predicates", 20)
     /\ Assignable(static, declared)
     /\ \E a \in NumberValues \cup {Undefined} :
          call' = [fn |-> "typeofGuard", arg |-> a,
                   ret |-> Bool(TypeOf(a) = "number"),
                   value |-> IF TypeOf(a) = "number" THEN a ELSE Num(0),
                   static |-> static, declared |-> declared]
     /\ UNCHANGED <<lesson, pos, scope>>

\* if (isNumber(n)) n2 = n; else n2 = 0, with n = numberOrUndefined()
NarrowNumber ==
  LET static == PredicateNarrow({"number", "undefined"}, {"number"}) \cup {"number"}
      declared == {"number"}
  IN /\ At("predicates2", 17)
     /\ Assignable(static, declared)
     /\ \E n \in NumberValues \cup {Undefined} :
          call' = [fn |-> "isNumber", arg |-> n, ret |-> isNumber(n),
                   value |-> IF isNumber(n).b THEN n ELSE Num(0),
                   static |-> static, declared |-> declared]
     /\ UNCHANGED <<lesson, pos, scope>>

\* const path: Path = buildPath('courses'); [path.prefix, path('regexes')]
CallBuildPath ==
  /\ At("constraints", 264) \/ At("constraints", 273)
  /\ \E p \in PathStrings, s \in PathStrings :
       call' = [fn |-> "buildPath", arg |-> p, suffix |-> s,
                ret |-> buildPath(p),
                out |-> << GetProp(buildPath(p), "prefix"),
                           path(buildPath(p), s) >>]
  /\ UNCHANGED <<lesson, pos, scope>>

\* coursePath.prefix = 'courses'; const coursePath2: Path = coursePath;
\* [coursePath2.prefix, coursePath2('typescript')]
RunCoursePath ==
  /\ At("constraints", 225)
  /\ \E p \in PathStrings, s \in PathStrings :
       call' = [fn |-> "coursePath", arg |-> p, suffix |-> s,
                store |-> CoursePathSnippet(p, s)]
  /\ UNCHANGED <<lesson, pos, scope>>

\* getUserProperty({name: 'Amir', age: 36}, 'name') and (..., 'age')
CallGetUserProperty ==
  /\ At("keyof", 1) \/ At("keyof", 14)
  /\ \E u \in KeyofUsers, key \in {"name", "age"} :
       call' = [fn |-> "getUserProperty", arg |-> u, key |-> key,
                ret |-> getUserProperty(u, key)]
  /\ UNCHANGED <<lesson, pos, scope>>

\* getProperty({name: 'Amir', hello: 'world'}, 'hello'), getProperty({age: 36}, 'age')
CallGetProperty ==
  /\ At("keyof", 30)
  /\ \E obj \in KeyofObjects :
       \E key \in DOMAIN obj.o :
         call' = [fn |-> "getProperty", arg |-> obj, key |-> key,
                  ret |-> getProperty(obj, key)]
  /\ UNCHANGED <<lesson, pos, scope>>

\* const nameOrAge: NameOrAge = v, for any value v in place of the lesson's
DeclareNameOrAge ==
  /\ \E line \in DOMAIN NameOrAgeValue :
       /\ At("indexing", line)
       /\ \E v \in Values \cup {NameOrAgeValue[line]} :
            call' = Declare("nameOrAge", v, {TypeOf(v)}, NameOrAgeAt(line),
                            "NameOrAge", v = NameOrAgeValue[line])
  /\ UNCHANGED <<lesson, pos, scope>>

\* let x: T = e, for any basic type T and any expression e in place of
\* the lesson's
DeclareBasic ==
  /\ \E line \in DOMAIN BasicSnippets :
       /\ At("basic", line)
       /\ \E T \in BasicDeclared, x \in BasicExprs :
            call' = [expr |-> x]
                      @@ Declare("basic", Eval(x), ExprType(x), T, TypeName(T),
                                 [declared |-> T, expr |-> x] = BasicSnippets[line])
  /\ UNCHANGED <<lesson, pos, scope>>

\* the body of filterBelowAge<T ...> is type checked, for either
\* constraint and either property in place of the lesson's
CheckFilterBody ==
  /\ \E line \in DOMAIN FilterBodies :
       /\ At("constraints", line)
       /\ \E C \in {NoConstraint, AgeConstraint}, prop \in {"age", "name"} :
            call' = [fn |-> "filterBody", constraint |-> C, prop |-> prop,
                     error |-> CheckAccess(C, prop),
                     asWritten |-> ([constraint |-> C, prop |-> prop]
                                      = FilterBodies[line])]
  /\ UNCHANGED <<lesson, pos, scope>>

\* the call filterBelowAge(allUsers, 10) is type checked, for any of the
\* object types in place of the lesson's
CheckFilterCall ==
  /\ \E line \in DOMAIN FilterCalls :
       /\ At("constraints", line)
       /\ \E elem \in DOMAIN NamedTypes :
            call' = [fn |-> "filterCall", elem |-> elem,
                     constraint |-> AgeConstraint,
                     error |-> CheckCall(elem, AgeConstraint),
                     asWritten |-> (elem = FilterCalls[line])]
  /\ UNCHANGED <<lesson, pos, scope>>

\* const userAggregate: UserAggregate = {...} is type checked and run, for
\* User with one, two or three properties and any property values in
\* place of the lesson's
DeclareUserAggregate ==
  /\ \E line \in DOMAIN Aggregates :
       /\ At("mapped", line)
       /\ \E n \in 1..Len(UserKeys) :
            \E o \in [DOMAIN UserOf(n) -> PropValues] :
              call' = DeclareAggregate(line, UserOf(n), o,
                                       [n |-> n, o |-> o] = Aggregates[line])
  /\ UNCHANGED <<lesson, pos, scope>>

\* a snippet that reuses a name runs with one of the lesson's
\* declarations of it, the one in force or any other
RunWithDefinition ==
  /\ \E l \in DOMAIN Reuse :
       \E line \in DOMAIN Reuse[l] :
         /\ At(l, line)
         /\ \E d \in DefinedAt(l, Reuse[l][line].name) :
              call' = [fn |-> "reuse", name |-> Reuse[l][line].name,
                       binding |-> d,
                       mostRecent |-> (/\ Reuse[l][line].name \in DOMAIN scope
                                       /\ scope[Reuse[l][line].name] = d),
                       result |-> RunWith(l, line, d)]
  /\ UNCHANGED <<lesson, pos, scope>>

Next == \/ \E l \in LessonNames : OpenLesson(l)
        \/ NextItem
        \/ CallPluralize
        \/ CallDouble
        \/ CallDoubleNoToString
        \/ CallFilterBelowAge
        \/ CallIsAddressBoolean
        \/ CallIsAddress
        \/ NarrowAddress
        \/ NarrowAlbum
        \/ CallIsNumberBuggy
        \/ CallIsString
        \/ NarrowString
        \/ RunExercise
        \/ NarrowAge
        \/ NarrowNumber
        \/ CallBuildPath
        \/ RunCoursePath
        \/ CallGetUserProperty
        \/ CallGetProperty
        \/ DeclareNameOrAge
        \/ DeclareBasic
        \/ CheckFilterBody
        \/ CheckFilterCall
        \/ DeclareUserAggregate
        \/ RunWithDefinition

Spec == Init /\ [][Next]_vars

\* C1: pluralize returns s followed by 's' for every string s and undefined
\* for undefined; the result is undefined exactly when the argument is.
C1_Pluralize ==
  call.fn = "pluralize" =>
    /\ (call.arg.t = "string" =>
          /\ call.ret.t = "string"
          /\ Len(call.ret.s) = Len(call.arg.s) + 1
          /\ SubSeq(call.ret.s, 1, Len(call.arg.s)) = call.arg.s
          /\ SubSeq(call.ret.s, Len(call.ret.s), Len(call.ret.s)) = "s")
    /\ (call.arg = Undefined <=> call.ret = Undefined)
    /\ (call.arg = Str("cat") => call.ret = Str("cats"))
    /\ (call.arg = Str("dog") => call.ret = Str("dogs"))

C1_Witness == call.fn = "pluralize" /\ call.arg = Str("cat") /\ call.ret = Str("cats")

\* the strings that are the string form of a number
Numeral(k) == NumToStr(Num(k))

\* C5: double returns n * 2 for a number n, the string form of twice the
\* number for a string holding a number, and a result of the argument's kind.
C5_Double ==
  call.fn = "double" =>
    /\ TypeOf(call.ret) = TypeOf(call.arg)
    /\ (TypeOf(call.arg) = "number" /\ ~call.arg.nan =>
          call.ret = Num(call.arg.n + call.arg.n))
    /\ \A k \in -MaxNum .. MaxNum :
          call.arg = Str(Numeral(k)) => call.ret = Str(Numeral(k + k))
    /\ (call.arg = Num(5) => call.ret = Num(10))
    /\ (call.arg = Str("6") => call.ret = Str("12"))

C5_Witness == call.fn = "double" /\ call.arg = Str("6") /\ call.ret = Str("12")

\* C6: without toString the program type checks, yet double(s) returns a
\* number for a string s: the variable declared string holds a number.
C6_StaticTypeViolated ==
  call.fn = "doubleNoToString" =>
    /\ FunctionTypeChecks(DoubleOverloads, DoubleImpl, DoubleNoToStringBodyReturns)
    /\ Lessons[lesson][pos].result = "literal"
    /\ call.static = {"string"}
    /\ call.declared = {"string"}
    /\ TypeOf(call.arg) = "string"
    /\ TypeOf(call.ret) = "number"
    /\ ~(TypeOf(call.ret) \in call.declared)
    /\ (call.arg = Str("6") => call.ret = Num(12))

C6_Witness == call.fn = "doubleNoToString" /\ call.arg = Str("6") /\ call.ret = Num(12)

\* C7: the wrong isNumber returns true exactly for strings, the program type
\* checks, and n2, declared number, holds the string n for every string n.
C7_WrongPredicate ==
  call.fn = "isNumberBuggy" =>
    /\ call.ret = Bool(TypeOf(call.arg) = "string")
    /\ Assignable(call.static, call.declared)
    /\ Lessons[lesson][pos].result = "literal"
    /\ call.declared = {"number"}
    /\ (TypeOf(call.arg) = "string" =>
          call.value = call.arg /\ ~(TypeOf(call.value) \in call.declared))
    /\ (call.arg = Str("oh no") => call.value = Str("oh no"))

C7_Witness == call.fn = "isNumberBuggy" /\ call.arg = Str("oh no")
                /\ call.value = Str("oh no")

\* C8: isString returns true exactly for strings; isString(s) ? s : 'not a
\* string' is s for a string s, 'not a string' otherwise, always a string.
C8_IsString ==
  call.fn = "isString" =>
    /\ call.ret.b = (call.arg \in StringValues)
    /\ (call.arg \in NumberValues \cup {Undefined, Obj([name |-> Str("Betty")])}
          => call.ret = Bool(FALSE))
    /\ ("value" \in DOMAIN call =>
          /\ TypeOf(call.value) = "string"
          /\ (call.arg \in StringValues => call.value = call.arg)
          /\ (call.arg \notin StringValues => call.value = Str("not a string")))

C8_Witness == call.fn = "isString" /\ "value" \in DOMAIN call
                /\ call.arg = Obj([name |-> Str("Betty")])
                /\ call.value = Str("not a string")

\* C9: isAddress (isAlbum) returns true exactly when its argument is not
\* undefined; the if/else assigns the own address (album) when defined and
\* the default when undefined, so the assigned variable is never undefined.
C9_NarrowNeverUndefined ==
  call.fn \in {"isAddress", "isAlbum"} =>
    /\ call.ret.b = (TypeOf(call.arg) # "undefined")
    /\ ("value" \in DOMAIN call =>
          /\ call.value # Undefined
          /\ TypeOf(call.value) = "object"
          /\ (call.arg # Undefined => call.value = call.arg)
          /\ (call.arg = Undefined =>
                call.value = IF call.fn = "isAddress"
                             THEN Address("unknown", "unknown")
                             ELSE Album("unknown", 0)))

C9_Witness == call.fn = "isAlbum" /\ call.arg = Undefined
                /\ call.value = Album("unknown", 0)

\* C10: the boolean isAddress and the type-predicate isAddress return the
\* same boolean for every argument.
C10_SameRuntimeBehaviour ==
  /\ (call.fn = "isAddressBoolean" => call.ret = isAddress(call.arg))
  /\ (call.fn = "isAddress" => call.ret = isAddressBoolean(call.arg))
  /\ (call.fn \in {"isAddressBoolean", "isAddress"} => call.ret \in {Bool(TRUE), Bool(FALSE)})

C10_Witness == call.fn = "isAddressBoolean" /\ call.arg = Undefined
                 /\ call.ret = Bool(FALSE)

\* the positions of the things whose age is below limit
Below(things, limit) ==
  {i \in 1 .. Len(things) :
     ~things[i].o.age.nan /\ things[i].o.age.n < limit.n}

\* C4: filterBelowAge returns exactly the elements whose age is strictly
\* less than limit, in their original order, each with all its properties.
C4_FilterBelowAge ==
  call.fn = "filterBelowAge" =>
    LET keep == Below(call.arg, call.limit)
    IN /\ Len(call.ret) = Cardinality(keep)
       /\ \A i \in keep :
            call.ret[Cardinality({k \in keep : k <= i})] = call.arg[i]
       /\ (call.arg = allUsers /\ call.limit = Num(10) =>
             call.names = << Str("Gabriel") >>)
       /\ (call.arg = allCats /\ call.limit = Num(10) =>
             call.names = << Str("Ms. Fluff") >>)

C4_Witness == call.fn = "filterBelowAge" /\ call.arg = allUsers
                /\ call.limit = Num(10) /\ call.names = << Str("Gabriel") >>

\* C2: in every exercise the recorded "Yours:" output is identical to the
\* "Goal:" output, and it is the value the exercise's code evaluates to.
C2_YoursIsGoal ==
  call.fn = "exercise" => call.yours = call.goal /\ call.out = call.yours

C2_Witness == call.fn = "exercise" /\ lesson = "typeof"
                /\ call.out = << Num(12), Num(28) >>

\* C3: every "Result:" line is followed by a literal value, an array or
\* object literal, or a "type error:" line, never by anything else.
C3_ResultFollowedByValue ==
  pos > 0 /\ Lessons[lesson][pos].result # "none" =>
    Lessons[lesson][pos].result \in {"literal", "array", "object", "typeerror"}

\* C11: narrowing a number | undefined value with a typeof guard or with the
\* correct isNumber yields the value itself when it is a number and 0 when it
\* is undefined; the variable declared number always holds a number.
C11_NarrowToNumber ==
  call.fn \in {"typeofGuard", "isNumber"} =>
    /\ call.declared = {"number"}
    /\ TypeOf(call.value) \in call.declared
    /\ (call.arg \in NumberValues => call.value = call.arg)
    /\ (call.arg = Undefined => call.value = Num(0))
    /\ (call.fn = "typeofGuard" /\ call.arg = Num(36) => call.value = Num(36))
    /\ (call.fn = "isNumber" /\ call.arg = numberOrUndefined => call.value = Num(1))

C11_Witness == call.fn = "isNumber" /\ call.arg = numberOrUndefined
                 /\ call.value = Num(1)

\* the string '/' + p + '/' + s, described by its parts
IsPathOf(r, p, s) ==
  /\ Len(r) = Len(p) + Len(s) + 2
  /\ SubSeq(r, 1, 1) = "/"
  /\ SubSeq(r, 2, Len(p) + 1) = p
  /\ SubSeq(r, Len(p) + 2, Len(p) + 2) = "/"
  /\ SubSeq(r, Len(p) + 3, Len(r)) = s

\* C12: buildPath(p) returns a function path with path.prefix = p and
\* path(s) = '/' + p + '/' + s; the prefix is set when buildPath returns.
C12_BuildPath ==
  call.fn = "buildPath" =>
    /\ TypeOf(call.ret) = "function"
    /\ "prefix" \in DOMAIN call.ret.props /\ call.ret.props.prefix = call.arg
    /\ call.out[1] = call.arg
    /\ TypeOf(call.out[2]) = "string"
    /\ IsPathOf(call.out[2].s, call.arg.s, call.suffix.s)
    /\ (call.arg = Str("courses") /\ call.suffix = Str("regexes") =>
          call.out = << Str("courses"), Str("/courses/regexes") >>)
    /\ (call.arg = Str("users") /\ call.suffix = Str("amir") =>
          call.out = << Str("users"), Str("/users/amir") >>)

C12_Witness == call.fn = "buildPath" /\ call.arg = Str("users")
                 /\ call.out = << Str("users"), Str("/users/amir") >>

\* C13: after coursePath.prefix is assigned, coursePath2 refers to the same
\* function as coursePath: coursePath2.prefix is the assigned prefix and
\* coursePath2(s) = '/' + prefix + '/' + s.
C13_CoursePath2 ==
  call.fn = "coursePath" =>
    /\ call.store.coursePath2 = call.store.coursePath
    /\ call.store.out[1] = call.arg
    /\ IsPathOf(call.store.out[2].s, call.arg.s, call.suffix.s)
    /\ (call.arg = Str("courses") /\ call.suffix = Str("typescript") =>
          call.store.out = << Str("courses"), Str("/courses/typescript") >>)

C13_Witness == call.fn = "coursePath" /\ call.arg = Str("courses")
                 /\ call.store.out = << Str("courses"), Str("/courses/typescript") >>

\* C14: getUserProperty and getProperty return the value stored in the
\* object under the given key, for every object and every key of it.
C14_GetProperty ==
  call.fn \in {"getUserProperty", "getProperty"} =>
    /\ call.key \in DOMAIN call.arg.o
    /\ \A k \in DOMAIN call.arg.o : k = call.key => call.ret = call.arg.o[k]
    /\ (call.arg = Obj([name |-> Str("Amir"), age |-> Num(36)]) =>
          /\ call.key = "name" => call.ret = Str("Amir")
          /\ call.key = "age" => call.ret = Num(36))
    /\ (call.arg = Obj([name |-> Str("Amir"), hello |-> Str("world")])
          /\ call.key = "hello" => call.ret = Str("world"))

C14_Witness == call.fn = "getProperty" /\ call.key = "hello"
                 /\ call.ret = Str("world")

\* C15: indexing an object type by a union of keys is distributive:
\* User['name' | 'age'] is User['name'] | User['age'], string | number; a
\* value is assignable to NameOrAge exactly when it is a string or a number,
\* also with a named key union or an object type taken with typeof.
C15_IndexingDistributes ==
  /\ PropertyTypes1 = PropertyTypes2
  /\ PropertyTypes1 = {"string", "number"}
  /\ \A K1, K2 \in SUBSET (DOMAIN UserType) \ {{}} :
       IndexType(UserType, K1 \cup K2)
         = IndexType(UserType, K1) \cup IndexType(UserType, K2)
  /\ (call.fn = "nameOrAge" =>
        /\ call.declared = {"string", "number"}
        /\ (call.error = "none") = (TypeOf(call.arg) \in {"string", "number"})
        /\ (call.error = "none" => call.value = call.arg)
        /\ (call.arg = Undefined =>
              call.error = "Type 'undefined' is not assignable to type 'NameOrAge'.")
        /\ (call.asWritten =>
              (call.error # "none") = (Lessons[lesson][pos].result = "typeerror")))

C15_Witness == call.fn = "nameOrAge" /\ lesson = "indexing" /\ pos = 5
                 /\ call.arg = Undefined /\ call.error # "none"

\* C17: a value assigned to a variable must match the declared type: a
\* snippet assigning a value of another basic type is rejected with "Type X
\* is not assignable to type Y" and produces no value; a snippet whose types
\* match evaluates to its stated Result.
C17_TypesMustMatch ==
  call.fn = "basic" =>
    /\ (call.error = "none") = (TypeOf(call.arg) \in call.declared)
    /\ (call.error = "none" =>
          "value" \in DOMAIN call /\ call.value = call.arg)
    /\ (call.error # "none" =>
          /\ "value" \notin DOMAIN call
          /\ \E Y \in call.declared :
               call.error = "Type '" \o TypeOf(call.arg)
                              \o "' is not assignable to type '" \o Y \o "'.")
    /\ (call.expr = Expr("+", Num(1), Num(1)) => call.arg = Num(2))
    /\ (call.expr = Expr("+", Str("any"), Str("thing")) => call.arg = Str("anything"))
    /\ (call.expr = Expr("||", Bool(TRUE), Bool(FALSE)) => call.arg = Bool(TRUE))
    /\ (call.asWritten =>
          (call.error # "none") = (Lessons[lesson][pos].result = "typeerror"))
    /\ (call.asWritten /\ Lessons[lesson][pos].first = 39 =>
          call.error = "Type 'string' is not assignable to type 'number'.")
    /\ (call.asWritten /\ Lessons[lesson][pos].first = 61 =>
          call.error = "Type 'number' is not assignable to type 'boolean'.")
    /\ (call.asWritten /\ Lessons[lesson][pos].first = 81 =>
          call.error = "Type 'number' is not assignable to type 'string'.")

C17_Witness == call.fn = "basic" /\ call.asWritten /\ Lessons[lesson][pos].first = 39
                 /\ call.error = "Type 'string' is not assignable to type 'number'."

\* C18: with <T extends {age: number}> a call of filterBelowAge is accepted
\* exactly when the element type has an age: number property (User[] and
\* Cat[] accepted, Album[] rejected), and inside the body only age may be
\* accessed (thing.name rejected; without the constraint thing.age rejected).
C18_Constraint ==
  /\ (call.fn = "filterCall" =>
        /\ (call.error = "none")
             = (\E k \in DOMAIN NamedTypes[call.elem] :
                  k = "age" /\ NamedTypes[call.elem][k] = {"number"})
        /\ (call.elem \in {"User", "Cat"} => call.error = "none")
        /\ (call.elem = "Album" =>
              call.error = "Argument of type 'Album[]' is not assignable to parameter of type '{ age: number; }[]'.")
        /\ (call.asWritten =>
              (call.error # "none") = (Lessons[lesson][pos].result = "typeerror")))
  /\ (call.fn = "filterBody" =>
        /\ (call.error = "none")
             = (call.prop = "age" /\ call.constraint = [age |-> {"number"}])
        /\ (call.prop = "name" =>
              call.error = "Property 'name' does not exist on type 'T'.")
        /\ (call.prop = "age" /\ DOMAIN call.constraint = {} =>
              call.error = "Property 'age' does not exist on type 'T'.")
        /\ (call.asWritten =>
              (call.error # "none") = (Lessons[lesson][pos].result = "typeerror")))

C18_Witness == call.fn = "filterCall" /\ call.elem = "Album" /\ call.asWritten
                 /\ call.error # "none"

\* a value of the type with the given printed name
RECURSIVE HasType(_, _)
HasType(v, n) ==
  IF IsArrayName(n)
  THEN IsArr(v) /\ \A i \in 1..Len(v.a) : HasType(v.a[i], ElemName(n))
  ELSE ~IsArr(v) /\ TypeOf(v) = n

\* C16: UserAggregate = {[K in keyof User]: Array<User[K]>} has exactly the
\* property names of User, and each property K accepts exactly the arrays of
\* values of User's type for K (email: ['amir@example.com'], age: [36]
\* accepted; email: 'amir@example.com' rejected, a string is not a string[]);
\* a property added to User adds the array property to UserAggregate.
C16_UserAggregate ==
  (call.fn = "userAggregate" /\ call.line \in {77, 98}) =>
    /\ DOMAIN call.mapped = DOMAIN call.user
    /\ (call.error = "none")
         = (\A K \in DOMAIN call.user :
              /\ IsArr(call.arg.o[K])
              /\ \A i \in 1..Len(call.arg.o[K].a) :
                   \E n \in call.user[K] : HasType(call.arg.o[K].a[i], n))
    /\ (call.arg = Obj([email |-> Arr(<<Str("amir@example.com")>>),
                        age |-> Arr(<<Num(36)>>)])
          => call.error = "none" /\ call.value = call.arg)
    /\ (call.arg = Obj([email |-> Str("amir@example.com"), age |-> Num(36)])
          => call.error = "Type 'string' is not assignable to type 'string[]'.")
    /\ ("catNames" \in DOMAIN call.user
          => call.mapped["catNames"] = {"string[][]"})
    /\ (call.asWritten =>
          (call.error # "none") = (Lessons[lesson][pos].result = "typeerror"))

C16_Witness ==
  /\ call.fn = "userAggregate" /\ call.line = 77
  /\ "catNames" \in DOMAIN call.user
  /\ call.error = "none"
  /\ call.arg.o["catNames"] = Arr(<<Arr(<<Str("a")>>)>>)

====
